---- MODULE Spec2Model ----
(***************************************************************************)
(* ppg-log: the flight segmentation engine and the log summaries of        *)
(* src/ppg_log/metrics.py, and the flight log table of src/ppg_log/db.py.  *)
(*                                                                         *)
(* A FlightLog is a table of rows (groundspeed, elapsed_time and, once     *)
(* classified, flight_mode) plus a LogMetadata record.  Row indices are    *)
(* 0-based as in the source; a column is a sequence and iloc(col, i) reads *)
(* row i.  Times are whole numbers of one fixed time unit, so that         *)
(* differences, sums and comparisons of times are exact; a groundspeed     *)
(* mean is kept as the pair <<sum, count>> and compared with the threshold *)
(* without dividing.  An optional value is None (<<>>) or Some(v) (<<v>>). *)
(***************************************************************************)
EXTENDS Integers, Sequences, FiniteSets, TLC

VARIABLES groundspeed, elapsed_time, flight_mode, metadata, ret,
          flight_logs, db_data, table, submitted

vars == <<groundspeed, elapsed_time, flight_mode, metadata, ret,
          flight_logs, db_data, table, submitted>>

\* The FlightLog a pipeline call works on.
log_vars == <<groundspeed, elapsed_time, flight_mode, metadata>>

\* The collection of logs handed to LogSummary and to the database, the
\* SummaryTuple in hand, the rows of the FlightLogEntry table and the datetimes
\* of the logs submitted to it so far.
batch_vars == <<flight_logs, db_data, table, submitted>>

(* ----------------------------- bounds ---------------------------------- *)

\* Longest series of rows drawn by Init (segmentation specification).
MaxRows == 8

\* Longest series of rows drawn by InitClassify and InitMetrics.
MaxLogRows == 6

\* Time between two rows of a log sampled at a fixed rate.
SampleSteps == {1}

\* Rolling window widths handed to classify_flight.
Windows == {1, 2, 3, 5}

\* Groundspeed samples of the segmentation specification: below / at threshold 1.
Speeds == {0, 1}

\* Groundspeed samples of the classifier and pipeline specifications.
LogSpeeds == {0, 1, 4}

\* Window width and airborne threshold of the segmentation specification: with
\* them a row is AIRBORNE exactly when its own groundspeed is 1.
SegWindows == {1}

SegAirThresholds == {1}

\* Airborne thresholds.
AirThresholds == {1, 2}

\* Time between two consecutive rows.
Steps == {0, 1}

\* time_threshold values.
TimeThresholds == {1, 2, 3}

\* start_trim values; the last one lies beyond the end of every series drawn.
StartTrims == {0, 2, 50}

\* Parameters of generate_flight_metrics in the pipeline specification.
MetricsTimeThresholds == {1, 2, 4}

MetricsStartTrims == {0, 2}

(* ------------------------- program constants --------------------------- *)

ROLLING_WINDOW_WIDTH == 5

GROUND == 0

AIRBORNE == 1

(* ------------------------------ helpers -------------------------------- *)

None == <<>>

Some(v) == <<v>>

\* pandas .iloc[i] / Python s[i]: 0-based read.
iloc(col, i) == col[i + 1]

Abs(x) == IF x < 0 THEN 0 - x ELSE x

RECURSIVE SumSeq(_)
SumSeq(s) == IF s = <<>> THEN 0 ELSE Head(s) + SumSeq(Tail(s))

\* dt.timedelta(seconds=x): the model's time unit is the one timedelta stores.
timedelta(seconds) == seconds

total_seconds(td) == td

(* --------------------------- Signal Classifier ------------------------- *)

\* Variant: the threshold is exclusive.
_classify_flight_mode_strict(mean, airborne_threshold) ==
    IF mean[1] > airborne_threshold * mean[2] THEN AIRBORNE ELSE GROUND

\* Variant: the comparison is the wrong way round.
_classify_flight_mode_reversed(mean, airborne_threshold) ==
    IF mean[1] <= airborne_threshold * mean[2] THEN AIRBORNE ELSE GROUND

\* _classify_flight_mode: groundspeed is a mean <<sum, count>>, count >= 1;
\* sum / count >= airborne_threshold  <=>  sum >= airborne_threshold * count.
_classify_flight_mode(mean, airborne_threshold) ==
    IF mean[1] >= airborne_threshold * mean[2] THEN AIRBORNE ELSE GROUND

\* Series.rolling(window_width, min_periods=1).mean(): the running window sum
\* takes the new row in and, once window_width rows are held, drops the oldest.
RECURSIVE rolling_sum(_, _, _)
rolling_sum(col, window_width, i) ==
    IF i = 0 THEN iloc(col, 0)
    ELSE rolling_sum(col, window_width, i - 1) + iloc(col, i)
         - (IF i >= window_width THEN iloc(col, i - window_width) ELSE 0)

rolling_count(window_width, i) == IF i + 1 < window_width THEN i + 1 ELSE window_width

rolling_mean(col, window_width) ==
    [k \in 1..Len(col) |->
        <<rolling_sum(col, window_width, k - 1), rolling_count(window_width, k - 1)>>]

\* classify_flight: the new flight_mode column.
classify_flight(gs, window_width, airborne_threshold) ==
    LET means == rolling_mean(gs, window_width)
    IN  [k \in 1..Len(gs) |-> _classify_flight_mode(means[k], airborne_threshold)]

(* --------------------------- Segment Extractor ------------------------- *)

\* Series.idxmax() of a boolean column: the first True row, row 0 when none is.
idxmax(mask) ==
    IF \E i \in 0..(Len(mask) - 1) : iloc(mask, i)
    THEN CHOOSE i \in 0..(Len(mask) - 1) :
            /\ iloc(mask, i)
            /\ \A j \in 0..(i - 1) : ~iloc(mask, j)
    ELSE 0

\* Python s[start:stop:step] for start, stop >= 0 and step >= 1.
RECURSIVE Slice(_, _, _, _)
Slice(s, start, stop, step) ==
    IF start >= stop \/ start >= Len(s) THEN <<>>
    ELSE <<iloc(s, start)>> \o Slice(s, start + step, stop, step)

\* np.flatnonzero(d == 1) + offset over positions k..Len(d)-1, ascending.
RECURSIVE flatnonzero(_, _, _)
flatnonzero(d, k, offset) ==
    IF k >= Len(d) THEN <<>>
    ELSE (IF iloc(d, k) = 1 THEN <<k + offset>> ELSE <<>>) \o flatnonzero(d, k + 1, offset)

\* Variant: the gap is measured from the start of the candidate before it.
zip_delta_from_start(et, ends, starts) ==
    LET n == IF Len(ends) < Len(starts) THEN Len(ends) ELSE Len(starts)
    IN  [k \in 1..n |-> iloc(et, starts[k]) - iloc(et, ends[k] - 1)]

\* zip(a, b) of two columns read at the given row lists, mapped to b - a.
zip_delta(et, ends, starts) ==
    LET n == IF Len(ends) < Len(starts) THEN Len(ends) ELSE Len(starts)
    IN  [k \in 1..n |-> iloc(et, starts[k]) - iloc(et, ends[k])]

\* ndarray.reshape(-1, 2).tolist() of an even-sized array.
reshape2(a) == [k \in 1..(Len(a) \div 2) |-> <<a[2 * k - 1], a[2 * k]>>]

trim_index(et, start_trim) == idxmax([k \in 1..Len(et) |-> et[k] >= start_trim])

\* np.abs(np.diff(flight_mode.iloc[trim_idx:])), before diffs[0] = 0.
abs_diff(fm, trim_idx) ==
    [k \in 1..(Len(fm) - trim_idx - 1) |->
        Abs(iloc(fm, trim_idx + k) - iloc(fm, trim_idx + k - 1))]

\* diffs[0] = 0
zero_first(diffs) == [k \in 1..Len(diffs) |-> IF k = 1 THEN 0 ELSE diffs[k]]

\* The transition rows found by _segment_flights (flights before the reshape).
transitions(fm, et, start_trim) ==
    LET trim_idx == trim_index(et, start_trim)
    IN  flatnonzero(zero_first(abs_diff(fm, trim_idx)), 0, trim_idx)

\* _segment_flights on a classified series of at least one row: raised names the
\* exception that ends the call (diffs[0] = 0 on an empty array, reshape of an
\* odd-sized array), "" when it returns (flights, next_segment_delta).
_segment_flights(fm, et, start_trim) ==
    LET trim_idx == trim_index(et, start_trim)
        diffs    == abs_diff(fm, trim_idx)
        flights  == transitions(fm, et, start_trim)
        next_segment_delta ==
            zip_delta(et, Slice(flights, 1, Len(flights) - 1, 2),
                          Slice(flights, 2, Len(flights), 2))
    IN  IF Len(diffs) = 0 THEN
            [raised |-> "IndexError", flights |-> <<>>, next_segment_delta |-> <<>>]
        ELSE IF Len(flights) % 2 # 0 THEN
            [raised |-> "ValueError", flights |-> <<>>, next_segment_delta |-> <<>>]
        ELSE
            [raised |-> "", flights |-> reshape2(flights),
             next_segment_delta |-> next_segment_delta]

(* ---------------------------- Segment Merger --------------------------- *)

FlightSegment(start_idx, end_idx, duration) ==
    [start_idx |-> start_idx, end_idx |-> end_idx, duration |-> duration]

\* zip_longest(flight_segments, next_segment_delta): the gap paired with
\* candidate i (1-based), None past the end of the gap list.
next_delta_of(next_segment_delta, i) ==
    IF i <= Len(next_segment_delta) THEN Some(next_segment_delta[i]) ELSE None

\* Variant: a short candidate before a long gap is discarded together with
\* whatever the accumulator holds.
merge_step_discard_group(et, time_threshold, segment, next_delta, flight_indices, valid_flights) ==
    LET segment_start    == segment[1]
        segment_end      == segment[2]
        segment_duration == iloc(et, segment_end) - iloc(et, segment_start)
        extended         == flight_indices \o <<segment_start, segment_end>>
        takeoff_idx      == extended[1]
        landing_idx      == extended[Len(extended)]
        flight_duration  == timedelta(iloc(et, landing_idx) - iloc(et, takeoff_idx))
    IN  IF /\ next_delta # None
           /\ segment_duration < time_threshold
           /\ next_delta[1] >= time_threshold
        THEN [flight_indices |-> <<>>, valid_flights |-> valid_flights]
        ELSE IF next_delta = None \/ next_delta[1] >= time_threshold
        THEN [flight_indices |-> <<>>,
              valid_flights |->
                 IF total_seconds(flight_duration) < time_threshold
                 THEN valid_flights
                 ELSE Append(valid_flights,
                             FlightSegment(takeoff_idx, landing_idx, flight_duration))]
        ELSE [flight_indices |-> extended, valid_flights |-> valid_flights]

\* Variant: the accumulator is cleared only when a flight is validated.
merge_step_clear_on_emit(et, time_threshold, segment, next_delta, flight_indices, valid_flights) ==
    LET segment_start    == segment[1]
        segment_end      == segment[2]
        segment_duration == iloc(et, segment_end) - iloc(et, segment_start)
        extended         == flight_indices \o <<segment_start, segment_end>>
        takeoff_idx      == extended[1]
        landing_idx      == extended[Len(extended)]
        flight_duration  == timedelta(iloc(et, landing_idx) - iloc(et, takeoff_idx))
    IN  IF /\ next_delta # None
           /\ segment_duration < time_threshold
           /\ flight_indices = <<>>
           /\ next_delta[1] >= time_threshold
        THEN [flight_indices |-> <<>>, valid_flights |-> valid_flights]
        ELSE IF next_delta = None \/ next_delta[1] >= time_threshold
        THEN IF total_seconds(flight_duration) < time_threshold
             THEN [flight_indices |-> extended, valid_flights |-> valid_flights]
             ELSE [flight_indices |-> <<>>,
                   valid_flights |->
                      Append(valid_flights,
                             FlightSegment(takeoff_idx, landing_idx, flight_duration))]
        ELSE [flight_indices |-> extended, valid_flights |-> valid_flights]

\* Variant: a candidate of full duration lands at once, whatever the next gap.
merge_step_close_on_long(et, time_threshold, segment, next_delta, flight_indices, valid_flights) ==
    LET segment_start    == segment[1]
        segment_end      == segment[2]
        segment_duration == iloc(et, segment_end) - iloc(et, segment_start)
        extended         == flight_indices \o <<segment_start, segment_end>>
        takeoff_idx      == extended[1]
        landing_idx      == extended[Len(extended)]
        flight_duration  == timedelta(iloc(et, landing_idx) - iloc(et, takeoff_idx))
    IN  IF /\ next_delta # None
           /\ segment_duration < time_threshold
           /\ flight_indices = <<>>
           /\ next_delta[1] >= time_threshold
        THEN [flight_indices |-> <<>>, valid_flights |-> valid_flights]
        ELSE IF \/ next_delta = None
                \/ next_delta[1] >= time_threshold
                \/ segment_duration >= time_threshold
        THEN [flight_indices |-> <<>>,
              valid_flights |->
                 IF total_seconds(flight_duration) < time_threshold
                 THEN valid_flights
                 ELSE Append(valid_flights,
                             FlightSegment(takeoff_idx, landing_idx, flight_duration))]
        ELSE [flight_indices |-> extended, valid_flights |-> valid_flights]

\* Variant: a transient spike is kept in the accumulator.
merge_step_keep_spike(et, time_threshold, segment, next_delta, flight_indices, valid_flights) ==
    LET segment_start    == segment[1]
        segment_end      == segment[2]
        segment_duration == iloc(et, segment_end) - iloc(et, segment_start)
        extended         == flight_indices \o <<segment_start, segment_end>>
        takeoff_idx      == extended[1]
        landing_idx      == extended[Len(extended)]
        flight_duration  == timedelta(iloc(et, landing_idx) - iloc(et, takeoff_idx))
    IN  IF /\ next_delta # None
           /\ segment_duration < time_threshold
           /\ flight_indices = <<>>
           /\ next_delta[1] >= time_threshold
        THEN [flight_indices |-> extended, valid_flights |-> valid_flights]
        ELSE IF next_delta = None \/ next_delta[1] >= time_threshold
        THEN [flight_indices |-> <<>>,
              valid_flights |->
                 IF total_seconds(flight_duration) < time_threshold
                 THEN valid_flights
                 ELSE Append(valid_flights,
                             FlightSegment(takeoff_idx, landing_idx, flight_duration))]
        ELSE [flight_indices |-> extended, valid_flights |-> valid_flights]

\* Variant: the landing check emits the group whatever its duration.
merge_step_keep_short(et, time_threshold, segment, next_delta, flight_indices, valid_flights) ==
    LET segment_start    == segment[1]
        segment_end      == segment[2]
        segment_duration == iloc(et, segment_end) - iloc(et, segment_start)
        extended         == flight_indices \o <<segment_start, segment_end>>
        takeoff_idx      == extended[1]
        landing_idx      == extended[Len(extended)]
        flight_duration  == timedelta(iloc(et, landing_idx) - iloc(et, takeoff_idx))
    IN  IF /\ next_delta # None
           /\ segment_duration < time_threshold
           /\ flight_indices = <<>>
           /\ next_delta[1] >= time_threshold
        THEN \* transient spike: flight_indices.clear(); continue
             [flight_indices |-> <<>>, valid_flights |-> valid_flights]
        ELSE IF next_delta = None \/ next_delta[1] >= time_threshold
        THEN \* landed
             [flight_indices |-> <<>>,
              valid_flights |->
                 IF FALSE
                 THEN valid_flights
                 ELSE Append(valid_flights,
                             FlightSegment(takeoff_idx, landing_idx, flight_duration))]
        ELSE [flight_indices |-> extended, valid_flights |-> valid_flights]

\* Variant: the duration is that of the last candidate alone.
merge_step_own_duration(et, time_threshold, segment, next_delta, flight_indices, valid_flights) ==
    LET segment_start    == segment[1]
        segment_end      == segment[2]
        segment_duration == iloc(et, segment_end) - iloc(et, segment_start)
        extended         == flight_indices \o <<segment_start, segment_end>>
        takeoff_idx      == extended[1]
        landing_idx      == extended[Len(extended)]
        flight_duration  == timedelta(segment_duration)
    IN  IF /\ next_delta # None
           /\ segment_duration < time_threshold
           /\ flight_indices = <<>>
           /\ next_delta[1] >= time_threshold
        THEN \* transient spike: flight_indices.clear(); continue
             [flight_indices |-> <<>>, valid_flights |-> valid_flights]
        ELSE IF next_delta = None \/ next_delta[1] >= time_threshold
        THEN \* landed
             [flight_indices |-> <<>>,
              valid_flights |->
                 IF total_seconds(flight_duration) < time_threshold
                 THEN valid_flights
                 ELSE Append(valid_flights,
                             FlightSegment(takeoff_idx, landing_idx, flight_duration))]
        ELSE [flight_indices |-> extended, valid_flights |-> valid_flights]

\* Variant: the accumulator is not cleared on landing.
merge_step_no_clear(et, time_threshold, segment, next_delta, flight_indices, valid_flights) ==
    LET segment_start    == segment[1]
        segment_end      == segment[2]
        segment_duration == iloc(et, segment_end) - iloc(et, segment_start)
        extended         == flight_indices \o <<segment_start, segment_end>>
        takeoff_idx      == extended[1]
        landing_idx      == extended[Len(extended)]
        flight_duration  == timedelta(iloc(et, landing_idx) - iloc(et, takeoff_idx))
    IN  IF /\ next_delta # None
           /\ segment_duration < time_threshold
           /\ flight_indices = <<>>
           /\ next_delta[1] >= time_threshold
        THEN \* transient spike: flight_indices.clear(); continue
             [flight_indices |-> <<>>, valid_flights |-> valid_flights]
        ELSE IF next_delta = None \/ next_delta[1] >= time_threshold
        THEN \* landed
             [flight_indices |-> extended,
              valid_flights |->
                 IF total_seconds(flight_duration) < time_threshold
                 THEN valid_flights
                 ELSE Append(valid_flights,
                             FlightSegment(takeoff_idx, landing_idx, flight_duration))]
        ELSE [flight_indices |-> extended, valid_flights |-> valid_flights]

\* Variant: an isolated candidate is discarded whatever its duration.
merge_step_eager_discard(et, time_threshold, segment, next_delta, flight_indices, valid_flights) ==
    LET segment_start    == segment[1]
        segment_end      == segment[2]
        segment_duration == iloc(et, segment_end) - iloc(et, segment_start)
        extended         == flight_indices \o <<segment_start, segment_end>>
        takeoff_idx      == extended[1]
        landing_idx      == extended[Len(extended)]
        flight_duration  == timedelta(iloc(et, landing_idx) - iloc(et, takeoff_idx))
    IN  IF /\ next_delta # None
           /\ flight_indices = <<>>
           /\ next_delta[1] >= time_threshold
        THEN \* transient spike: flight_indices.clear(); continue
             [flight_indices |-> <<>>, valid_flights |-> valid_flights]
        ELSE IF next_delta = None \/ next_delta[1] >= time_threshold
        THEN \* landed
             [flight_indices |-> <<>>,
              valid_flights |->
                 IF total_seconds(flight_duration) < time_threshold
                 THEN valid_flights
                 ELSE Append(valid_flights,
                             FlightSegment(takeoff_idx, landing_idx, flight_duration))]
        ELSE [flight_indices |-> extended, valid_flights |-> valid_flights]

\* One pass of the body of find_flights' for loop over candidate i with the
\* accumulator flight_indices: the accumulator and the validated segments after it.
merge_step(et, time_threshold, segment, next_delta, flight_indices, valid_flights) ==
    LET segment_start    == segment[1]
        segment_end      == segment[2]
        segment_duration == iloc(et, segment_end) - iloc(et, segment_start)
        extended         == flight_indices \o <<segment_start, segment_end>>
        takeoff_idx      == extended[1]
        landing_idx      == extended[Len(extended)]
        flight_duration  == timedelta(iloc(et, landing_idx) - iloc(et, takeoff_idx))
    IN  IF /\ next_delta # None
           /\ segment_duration < time_threshold
           /\ flight_indices = <<>>
           /\ next_delta[1] >= time_threshold
        THEN \* transient spike: flight_indices.clear(); continue
             [flight_indices |-> <<>>, valid_flights |-> valid_flights]
        ELSE IF next_delta = None \/ next_delta[1] >= time_threshold
        THEN \* landed
             [flight_indices |-> <<>>,
              valid_flights |->
                 IF total_seconds(flight_duration) < time_threshold
                 THEN valid_flights
                 ELSE Append(valid_flights,
                             FlightSegment(takeoff_idx, landing_idx, flight_duration))]
        ELSE [flight_indices |-> extended, valid_flights |-> valid_flights]

\* The loop state before candidate i (1-based); i = Len(flight_segments) + 1
\* is the state when the loop ends.
RECURSIVE merge_loop(_, _, _, _, _)
merge_loop(et, time_threshold, flight_segments, next_segment_delta, i) ==
    IF i = 1 THEN [flight_indices |-> <<>>, valid_flights |-> <<>>]
    ELSE LET before == merge_loop(et, time_threshold, flight_segments,
                                  next_segment_delta, i - 1)
         IN  merge_step(et, time_threshold, flight_segments[i - 1],
                        next_delta_of(next_segment_delta, i - 1),
                        before.flight_indices, before.valid_flights)

\* Variant: an empty list of validated segments is returned as it is.
find_flights_empty_list(fm, et, time_threshold, start_trim) ==
    LET extracted     == _segment_flights(fm, et, start_trim)
        valid_flights ==
            merge_loop(et, time_threshold, extracted.flights,
                       extracted.next_segment_delta,
                       Len(extracted.flights) + 1).valid_flights
    IN  IF extracted.raised # "" THEN [raised |-> extracted.raised, value |-> None]
        ELSE IF Len(extracted.flights) = 0 THEN [raised |-> "", value |-> None]
        ELSE [raised |-> "", value |-> Some(valid_flights)]

\* find_flights: raised as in _segment_flights; value is None or Some(list).
find_flights(fm, et, time_threshold, start_trim) ==
    LET extracted     == _segment_flights(fm, et, start_trim)
        valid_flights ==
            merge_loop(et, time_threshold, extracted.flights,
                       extracted.next_segment_delta,
                       Len(extracted.flights) + 1).valid_flights
    IN  IF extracted.raised # "" THEN [raised |-> extracted.raised, value |-> None]
        ELSE IF Len(extracted.flights) = 0 THEN [raised |-> "", value |-> None]
        ELSE IF Len(valid_flights) = 0 THEN [raised |-> "", value |-> None]
        ELSE [raised |-> "", value |-> Some(valid_flights)]

(* -------------------------- Per-Log Aggregator ------------------------- *)

\* LogMetadata's defaults for the flight quantities.
LogMetadata ==
    [n_flight_segments |-> None, total_flight_time |-> timedelta(0),
     flight_segments |-> None]

\* bool(flight_segments) of an Optional[list].
truthy(opt_list) == opt_list # None /\ Len(opt_list[1]) > 0

\* Variant: the count stays None when no segment was found.
metrics_of_null_count(found) ==
    IF truthy(found)
    THEN [n_flight_segments |-> Some(Len(found[1])),
          total_flight_time |->
              SumSeq([k \in 1..Len(found[1]) |-> found[1][k].duration]),
          flight_segments |-> found]
    ELSE [n_flight_segments |-> None, total_flight_time |-> timedelta(0),
          flight_segments |-> found]

\* The metadata written by generate_flight_metrics after find_flights returned found.
metrics_of(found) ==
    IF truthy(found)
    THEN [n_flight_segments |-> Some(Len(found[1])),
          total_flight_time |->
              SumSeq([k \in 1..Len(found[1]) |-> found[1][k].duration]),
          flight_segments |-> found]
    ELSE [n_flight_segments |-> Some(0), total_flight_time |-> timedelta(0),
          flight_segments |-> found]

(* ------------------------------- state --------------------------------- *)

\* Columns of n rows over the values vals.
Columns(n, vals) == [1..n -> vals]

\* elapsed_time of n rows: 0 at row 0 (parser: time - time[0]), then rising by steps.
RECURSIVE Cumulate(_, _)
Cumulate(steps, k) == IF k = 0 THEN 0 ELSE Cumulate(steps, k - 1) + steps[k]

ElapsedTimes(n) ==
    {[k \in 1..n |-> Cumulate(st, k - 1)] : st \in [1..(n - 1) -> Steps]}

\* ret records the last call: its name, the arguments it read, the exception it
\* raised ("" when it returned) and its return value.
NoCall ==
    [op |-> "", window_width |-> 0, airborne_threshold |-> 0, time_threshold |-> 0,
     start_trim |-> 0, classify_segments |-> FALSE, raised |-> "", value |-> None]

\* elapsed_time of n rows sampled every step.
SampledTimes(n, step) == [k \in 1..n |-> (k - 1) * step]

\* No collection of logs, no SummaryTuple and an empty table.
NoBatch ==
    /\ flight_logs = <<>>
    /\ db_data = None
    /\ table = <<>>
    /\ submitted = {}

\* A log as process_log builds it before generate_flight_metrics: no flight_mode
\* column yet (<<>>), default metadata.
Init ==
    /\ \E n \in 1..MaxRows :
          /\ groundspeed \in Columns(n, Speeds)
          /\ elapsed_time \in ElapsedTimes(n)
    /\ flight_mode = <<>>
    /\ metadata = LogMetadata
    /\ ret = NoCall
    /\ NoBatch

\* The extractor and the merger are handed a classified log, once per
\* classification (as generate_flight_metrics does): their own results leave the
\* log as it was, so the logs that can be reached are the same without this guard.
Fresh == ret.op \in {"classify_flight", "generate_flight_metrics"}

\* classify_flight(flight_log, window_width, airborne_threshold)
ClassifyFlight(window_width, airborne_threshold) ==
    /\ ret.op = ""
    /\ flight_mode' = classify_flight(groundspeed, window_width, airborne_threshold)
    /\ ret' = [NoCall EXCEPT !.op = "classify_flight",
                             !.window_width = window_width,
                             !.airborne_threshold = airborne_threshold]
    /\ UNCHANGED <<groundspeed, elapsed_time, metadata>>
    /\ UNCHANGED batch_vars

\* _segment_flights(flight_data, start_trim)
SegmentFlights(start_trim) ==
    LET r == _segment_flights(flight_mode, elapsed_time, start_trim)
    IN  /\ Fresh
        /\ ret' = [NoCall EXCEPT !.op = "_segment_flights",
                                 !.start_trim = start_trim,
                                 !.raised = r.raised,
                                 !.value = <<r.flights, r.next_segment_delta>>]
        /\ UNCHANGED <<groundspeed, elapsed_time, flight_mode, metadata>>
        /\ UNCHANGED batch_vars

\* find_flights(flight_data, time_threshold, start_trim)
FindFlights(time_threshold, start_trim) ==
    LET r == find_flights(flight_mode, elapsed_time, time_threshold, start_trim)
    IN  /\ Fresh
        /\ ret' = [NoCall EXCEPT !.op = "find_flights",
                                 !.time_threshold = time_threshold,
                                 !.start_trim = start_trim,
                                 !.raised = r.raised,
                                 !.value = r.value]
        /\ UNCHANGED <<groundspeed, elapsed_time, flight_mode, metadata>>
        /\ UNCHANGED batch_vars

\* Variant: a run without segmentation still sets the segment count to 0.
GenerateFlightMetrics_count_unsegmented(airborne_threshold, time_threshold, start_trim, classify_segments) ==
    LET fm == classify_flight(groundspeed, ROLLING_WINDOW_WIDTH, airborne_threshold)
        r  == find_flights(fm, elapsed_time, time_threshold, start_trim)
    IN  /\ ret.op \in {"", "generate_flight_metrics"}
        /\ flight_mode' = fm
        /\ metadata' = IF classify_segments
                       THEN IF r.raised = "" THEN metrics_of(r.value) ELSE metadata
                       ELSE [metadata EXCEPT !.n_flight_segments = Some(0)]
        /\ ret' = [NoCall EXCEPT !.op = "generate_flight_metrics",
                                 !.window_width = ROLLING_WINDOW_WIDTH,
                                 !.airborne_threshold = airborne_threshold,
                                 !.time_threshold =
                                     IF classify_segments THEN time_threshold ELSE 0,
                                 !.start_trim =
                                     IF classify_segments THEN start_trim ELSE 0,
                                 !.classify_segments = classify_segments,
                                 !.raised = IF classify_segments THEN r.raised ELSE ""]
        /\ UNCHANGED <<groundspeed, elapsed_time>>
        /\ UNCHANGED batch_vars

\* Variant: a log that already has a segment count keeps its list and count but
\* gets its total flight time reset.
GenerateFlightMetrics_reset_total(airborne_threshold, time_threshold, start_trim, classify_segments) ==
    LET fm == classify_flight(groundspeed, ROLLING_WINDOW_WIDTH, airborne_threshold)
        r  == find_flights(fm, elapsed_time, time_threshold, start_trim)
    IN  /\ ret.op \in {"", "generate_flight_metrics"}
        /\ flight_mode' = fm
        /\ metadata' = IF classify_segments /\ r.raised = ""
                       THEN IF metadata.n_flight_segments = None
                            THEN metrics_of(r.value)
                            ELSE [metrics_of(r.value) EXCEPT
                                     !.total_flight_time = timedelta(0)]
                       ELSE metadata
        /\ ret' = [NoCall EXCEPT !.op = "generate_flight_metrics",
                                 !.window_width = ROLLING_WINDOW_WIDTH,
                                 !.airborne_threshold = airborne_threshold,
                                 !.time_threshold =
                                     IF classify_segments THEN time_threshold ELSE 0,
                                 !.start_trim =
                                     IF classify_segments THEN start_trim ELSE 0,
                                 !.classify_segments = classify_segments,
                                 !.raised = IF classify_segments THEN r.raised ELSE ""]
        /\ UNCHANGED <<groundspeed, elapsed_time>>
        /\ UNCHANGED batch_vars

\* Variant: a failure of find_flights is taken as "no flights" and stored.
GenerateFlightMetrics_store_on_failure(airborne_threshold, time_threshold, start_trim, classify_segments) ==
    LET fm == classify_flight(groundspeed, ROLLING_WINDOW_WIDTH, airborne_threshold)
        r  == find_flights(fm, elapsed_time, time_threshold, start_trim)
    IN  /\ ret.op \in {"", "generate_flight_metrics"}
        /\ flight_mode' = fm
        /\ metadata' = IF classify_segments
                       THEN IF r.raised = "" THEN metrics_of(r.value)
                            ELSE metrics_of(None)
                       ELSE metadata
        /\ ret' = [NoCall EXCEPT !.op = "generate_flight_metrics",
                                 !.window_width = ROLLING_WINDOW_WIDTH,
                                 !.airborne_threshold = airborne_threshold,
                                 !.time_threshold =
                                     IF classify_segments THEN time_threshold ELSE 0,
                                 !.start_trim =
                                     IF classify_segments THEN start_trim ELSE 0,
                                 !.classify_segments = classify_segments,
                                 !.raised = IF classify_segments THEN r.raised ELSE ""]
        /\ UNCHANGED <<groundspeed, elapsed_time>>
        /\ UNCHANGED batch_vars

\* generate_flight_metrics(flight_log, airborne_threshold, time_threshold,
\* start_trim, classify_segments) on a log fresh from the parser or from an
\* earlier run of the pipeline.  An exception of find_flights leaves the call
\* before flight_segments is assigned.
GenerateFlightMetrics(airborne_threshold, time_threshold, start_trim, classify_segments) ==
    LET fm == classify_flight(groundspeed, ROLLING_WINDOW_WIDTH, airborne_threshold)
        r  == find_flights(fm, elapsed_time, time_threshold, start_trim)
    IN  /\ ret.op \in {"", "generate_flight_metrics"}
        /\ flight_mode' = fm
        /\ metadata' = IF classify_segments /\ r.raised = ""
                       THEN metrics_of(r.value)
                       ELSE metadata
        /\ ret' = [NoCall EXCEPT !.op = "generate_flight_metrics",
                                 !.window_width = ROLLING_WINDOW_WIDTH,
                                 !.airborne_threshold = airborne_threshold,
                                 !.time_threshold =
                                     IF classify_segments THEN time_threshold ELSE 0,
                                 !.start_trim =
                                     IF classify_segments THEN start_trim ELSE 0,
                                 !.classify_segments = classify_segments,
                                 !.raised = IF classify_segments THEN r.raised ELSE ""]
        /\ UNCHANGED <<groundspeed, elapsed_time>>
        /\ UNCHANGED batch_vars

\* Logs of the classifier and pipeline specifications: sampled at a fixed rate.
InitLog ==
    /\ \E n \in 1..MaxLogRows, step \in SampleSteps :
          /\ groundspeed \in Columns(n, LogSpeeds)
          /\ elapsed_time = SampledTimes(n, step)
    /\ flight_mode = <<>>
    /\ metadata = LogMetadata
    /\ ret = NoCall
    /\ NoBatch

NextClassify ==
    \E w \in Windows, a \in AirThresholds : ClassifyFlight(w, a)

SpecClassify == InitLog /\ [][NextClassify]_vars

NextMetrics ==
    \/ \E a \in AirThresholds, t \in MetricsTimeThresholds,
          s \in MetricsStartTrims, c \in BOOLEAN :
            GenerateFlightMetrics(a, t, s, c)
    \/ \E t \in MetricsTimeThresholds, s \in MetricsStartTrims : FindFlights(t, s)

SpecMetrics == InitLog /\ [][NextMetrics]_vars

Next ==
    \/ \E w \in SegWindows, a \in SegAirThresholds : ClassifyFlight(w, a)
    \/ \E s \in StartTrims : SegmentFlights(s)
    \/ \E t \in TimeThresholds, s \in StartTrims : FindFlights(t, s)

Spec == Init /\ [][Next]_vars

\* The extractor alone on a classified log.
NextExtract ==
    \/ \E w \in SegWindows, a \in SegAirThresholds : ClassifyFlight(w, a)
    \/ \E s \in StartTrims : SegmentFlights(s)

SpecExtract == Init /\ [][NextExtract]_vars

\* Start trim of the merge specification: nothing is trimmed.
MergeStartTrims == {0}

\* The extractor and the merger together, as find_flights runs them.
NextMerge ==
    \/ \E w \in SegWindows, a \in SegAirThresholds : ClassifyFlight(w, a)
    \/ \E t \in TimeThresholds, s \in MergeStartTrims : FindFlights(t, s)

SpecMerge == Init /\ [][NextMerge]_vars

(* ------------------------------ LogSummary ----------------------------- *)

\* dt.timedelta(seconds=td.total_seconds() / n) for n # 0: the quotient rounded
\* to a whole number of time units, a tie going to the even neighbour.
timedelta_quotient(td, n) ==
    LET q == total_seconds(td) \div n
        r == total_seconds(td) % n
    IN  IF 2 * r < n THEN timedelta(q)
        ELSE IF 2 * r > n THEN timedelta(q + 1)
        ELSE IF q % 2 = 0 THEN timedelta(q) ELSE timedelta(q + 1)

\* The accumulators of from_flight_logs before the first log.
NoSegments ==
    [n_segments |-> 0, flight_time |-> timedelta(0),
     shortest |-> timedelta(0), longest |-> timedelta(0)]

\* Variant: the flight time is assigned, not accumulated.
segment_step_last_duration(acc, duration) ==
    [acc EXCEPT !.flight_time = duration,
                !.shortest = IF acc.shortest = timedelta(0) \/ duration < acc.shortest
                             THEN duration ELSE acc.shortest,
                !.longest = IF duration > acc.longest THEN duration ELSE acc.longest]

\* One pass of the loop over a log's segments.
segment_step(acc, duration) ==
    [acc EXCEPT !.flight_time = acc.flight_time + duration,
                !.shortest = IF acc.shortest = timedelta(0) \/ duration < acc.shortest
                             THEN duration ELSE acc.shortest,
                !.longest = IF duration > acc.longest THEN duration ELSE acc.longest]

\* The loop over the segments of one log: the accumulators after its first k.
RECURSIVE segments_loop(_, _, _)
segments_loop(acc, segments, k) ==
    IF k = 0 THEN acc
    ELSE segment_step(segments_loop(acc, segments, k - 1), segments[k].duration)

\* One pass of the loop over the logs.
log_step(acc, log) ==
    IF log.metadata.n_flight_segments # None
    THEN LET counted == [acc EXCEPT !.n_segments =
                                       acc.n_segments + log.metadata.n_flight_segments[1]]
         IN  IF truthy(log.metadata.flight_segments)
             THEN segments_loop(counted, log.metadata.flight_segments[1],
                                Len(log.metadata.flight_segments[1]))
             ELSE counted
    ELSE acc

\* The accumulators after the first i logs.
RECURSIVE logs_loop(_, _)
logs_loop(logs, i) ==
    IF i = 0 THEN NoSegments ELSE log_step(logs_loop(logs, i - 1), logs[i])

\* A LogSummary.
LogSummary(n_logs, n_flight_segments, total_flight_time, avg_flight_time, shortest_flight, longest_flight) ==
    [n_logs |-> n_logs, n_flight_segments |-> n_flight_segments,
     total_flight_time |-> total_flight_time, avg_flight_time |-> avg_flight_time,
     shortest_flight |-> shortest_flight, longest_flight |-> longest_flight]

\* Variant: a count of 0 is reported as 0.
summary_of_zero_count(n_logs, acc) ==
    LET total_flight_time ==
            IF acc.flight_time = timedelta(0) THEN None ELSE Some(acc.flight_time)
    IN  IF total_flight_time # None
        THEN IF acc.n_segments = 0
             THEN [raised |-> "ZeroDivisionError", value |-> None]
             ELSE [raised |-> "",
                   value |-> Some(LogSummary(
                       n_logs, Some(acc.n_segments),
                       total_flight_time,
                       Some(timedelta_quotient(total_flight_time[1], acc.n_segments)),
                       Some(acc.shortest), Some(acc.longest)))]
        ELSE [raised |-> "",
              value |-> Some(LogSummary(
                  n_logs, Some(acc.n_segments),
                  None, None, None, None))]

\* What from_flight_logs makes of the accumulators once the loop is over.
summary_of(n_logs, acc) ==
    LET total_flight_time ==
            IF acc.flight_time = timedelta(0) THEN None ELSE Some(acc.flight_time)
    IN  IF total_flight_time # None
        THEN IF acc.n_segments = 0
             THEN [raised |-> "ZeroDivisionError", value |-> None]
             ELSE [raised |-> "",
                   value |-> Some(LogSummary(
                       n_logs, Some(acc.n_segments),
                       total_flight_time,
                       Some(timedelta_quotient(total_flight_time[1], acc.n_segments)),
                       Some(acc.shortest), Some(acc.longest)))]
        ELSE [raised |-> "",
              value |-> Some(LogSummary(
                  n_logs, IF acc.n_segments # 0 THEN Some(acc.n_segments) ELSE None,
                  None, None, None, None))]

\* Variant: an empty collection is summarised like any other.
from_flight_logs_unchecked(logs) ==
    summary_of(Len(logs), logs_loop(logs, Len(logs)))

\* LogSummary.from_flight_logs(flight_logs)
from_flight_logs(logs) ==
    IF Len(logs) = 0
    THEN [raised |-> "ValueError", value |-> None]
    ELSE summary_of(Len(logs), logs_loop(logs, Len(logs)))

\* SummaryTuple(n_logs, n_flight_segments, total_flight_time, flight_segments)
SummaryTuple(n_logs, n_flight_segments, total_flight_time, segments) ==
    [n_logs |-> n_logs, n_flight_segments |-> n_flight_segments,
     total_flight_time |-> total_flight_time, flight_segments |-> segments]

\* One pass of the loop of from_db_query over db_data.flight_segments.
db_segment_step(acc, segment) ==
    [acc EXCEPT !.shortest = IF acc.shortest = timedelta(0) \/ segment < acc.shortest
                             THEN segment ELSE acc.shortest,
                !.longest = IF segment > acc.longest THEN segment ELSE acc.longest]

RECURSIVE db_segments_loop(_, _)
db_segments_loop(segments, k) ==
    IF k = 0 THEN NoSegments
    ELSE db_segment_step(db_segments_loop(segments, k - 1), segments[k])

\* LogSummary.from_db_query(db_data)
from_db_query(data) ==
    IF data.n_flight_segments = 0
    THEN [raised |-> "ZeroDivisionError", value |-> None]
    ELSE LET acc == db_segments_loop(data.flight_segments, Len(data.flight_segments))
         IN  [raised |-> "",
              value |-> Some(LogSummary(
                  data.n_logs, Some(data.n_flight_segments),
                  Some(data.total_flight_time),
                  Some(timedelta_quotient(data.total_flight_time, data.n_flight_segments)),
                  Some(acc.shortest), Some(acc.longest)))]

(* -------------------------- summary: state ----------------------------- *)

\* Most logs in a collection.
MaxLogs == 2

\* Most flight segments in one log's metadata.
MaxSegments == 2

\* Most segments in a SummaryTuple.
MaxDbSegments == 3

\* Segment durations; 0 is the duration of a flight between two rows of equal
\* elapsed_time, kept by a time_threshold of 0.
Durations == {0, 1, 2}

\* The flight lists find_flights hands generate_flight_metrics.  A summary reads
\* the duration of a segment only, so every segment starts and ends at row 0.
Founds ==
    {None} \cup
    {Some(segs) : segs \in UNION {[1..n -> {FlightSegment(0, 0, d) : d \in Durations}]
                                      : n \in 1..MaxSegments}}

\* A log's metadata: the defaults of an unclassified log, or what
\* generate_flight_metrics wrote.
Metadatas == {LogMetadata} \cup {metrics_of(found) : found \in Founds}

\* What LogSummary and the database read of a FlightLog.
FlightLog(log_datetime, log_metadata) ==
    [log_datetime |-> log_datetime, metadata |-> log_metadata]

\* No FlightLog in hand.
NoLog ==
    /\ groundspeed = <<>>
    /\ elapsed_time = <<>>
    /\ flight_mode = <<>>
    /\ metadata = LogMetadata

\* A collection of up to MaxLogs logs, each of its own datetime.
InitSummary ==
    /\ NoLog
    /\ ret = NoCall
    /\ \E n \in 0..MaxLogs : \E ms \in [1..n -> Metadatas] :
          flight_logs = [k \in 1..n |-> FlightLog(k, ms[k])]
    /\ db_data = None
    /\ table = <<>>
    /\ submitted = {}

\* LogSummary.from_flight_logs(flight_logs)
FromFlightLogs ==
    LET r == from_flight_logs(flight_logs)
    IN  /\ ret.op = ""
        /\ ret' = [NoCall EXCEPT !.op = "from_flight_logs",
                                 !.raised = r.raised,
                                 !.value = r.value]
        /\ UNCHANGED log_vars
        /\ UNCHANGED batch_vars

NextSummary == FromFlightLogs

SpecSummary == InitSummary /\ [][NextSummary]_vars

\* The SummaryTuples of a table of 1..MaxLogs rows whose segments number at most
\* MaxDbSegments: the count and the total are those of the segments.
DbSummaries ==
    {SummaryTuple(n_logs, Len(segs), SumSeq(segs), segs) :
        n_logs \in 1..MaxLogs,
        segs \in UNION {[1..n -> Durations] : n \in 0..MaxDbSegments}}

InitDbSummary ==
    /\ NoLog
    /\ ret = NoCall
    /\ flight_logs = <<>>
    /\ db_data \in {Some(data) : data \in DbSummaries}
    /\ table = <<>>
    /\ submitted = {}

\* LogSummary.from_db_query(db_data)
FromDbQuery ==
    LET r == from_db_query(db_data[1])
    IN  /\ ret.op \in {"", "summary_query"}
        /\ db_data # None
        /\ ret' = [NoCall EXCEPT !.op = "from_db_query",
                                 !.raised = r.raised,
                                 !.value = r.value]
        /\ UNCHANGED log_vars
        /\ UNCHANGED batch_vars

NextDbSummary == FromDbQuery

SpecDbSummary == InitDbSummary /\ [][NextDbSummary]_vars

(* ------------------------------ database ------------------------------- *)

\* ",".join(str(segment.duration.total_seconds()) ...): the text is kept as the
\* sequence of its comma-separated numbers, "" being the empty sequence.
join_durations(opt_segments) ==
    IF truthy(opt_segments)
    THEN [k \in 1..Len(opt_segments[1]) |-> total_seconds(opt_segments[1][k].duration)]
    ELSE <<>>

\* FlightLogEntry.from_flight_log(flight_log): an unsaved row.  n_flights is the
\* Optional count of the metadata.
entry_from_flight_log(log) ==
    [flight_datetime |-> log.log_datetime,
     n_flights |-> log.metadata.n_flight_segments,
     total_flight_time |-> total_seconds(log.metadata.total_flight_time),
     flight_segment_durations |-> join_durations(log.metadata.flight_segments)]

\* The datetimes stored in the rows.
stored_datetimes(rows) == {rows[k].flight_datetime : k \in 1..Len(rows)}

\* The constraints of the table on inserting entries in one statement:
\* flight_datetime is unique and n_flights is not null.
integrity_error(rows, entries) ==
    \/ \E k \in 1..Len(entries) : entries[k].n_flights = None
    \/ \E k \in 1..Len(entries) : entries[k].flight_datetime \in stored_datetimes(rows)
    \/ \E j, k \in 1..Len(entries) :
          j < k /\ entries[j].flight_datetime = entries[k].flight_datetime

\* entry.save() of an unsaved entry: one INSERT.
save(rows, entry) ==
    IF integrity_error(rows, <<entry>>)
    THEN [raised |-> "IntegrityError", table |-> rows]
    ELSE [raised |-> "", table |-> Append(rows, entry)]

\* insert_single(flight_log): an IntegrityError of save() is caught and reported
\* on the terminal.
insert_single(rows, log) ==
    [raised |-> "", table |-> save(rows, entry_from_flight_log(log)).table]

\* FlightLogEntry.get_or_none(FlightLogEntry.flight_datetime == log_datetime)
get_or_none(rows, log_datetime) ==
    IF log_datetime \in stored_datetimes(rows)
    THEN Some(CHOOSE k \in 1..Len(rows) : rows[k].flight_datetime = log_datetime)
    ELSE None

\* FlightLogEntry.bulk_create(entries): one INSERT of all entries, none of them
\* stored when it fails; nothing to do for no entries.
bulk_create(rows, entries) ==
    IF integrity_error(rows, entries)
    THEN [raised |-> "IntegrityError", table |-> rows]
    ELSE [raised |-> "", table |-> rows \o entries]

\* The loop of bulk_insert: the entries of the first i logs that have no row of
\* their datetime in the table.
RECURSIVE new_entries(_, _, _)
new_entries(rows, logs, i) ==
    IF i = 0 THEN <<>>
    ELSE LET entries == new_entries(rows, logs, i - 1)
         IN  IF get_or_none(rows, logs[i].log_datetime) = None
             THEN Append(entries, entry_from_flight_log(logs[i]))
             ELSE entries

\* bulk_insert(flight_logs)
bulk_insert(rows, logs) == bulk_create(rows, new_entries(rows, logs, Len(logs)))

\* Most distinct flight datetimes.
MaxDatetimes == 3

\* Most logs in one bulk_insert.
MaxBatch == 2

\* The metadata of the logs the single and batch pipelines hand to the database,
\* which have been through generate_flight_metrics: no flight, two flights.
DbMetadatas ==
    {metrics_of(None),
     metrics_of(Some(<<FlightSegment(0, 0, 1), FlightSegment(0, 0, 2)>>))}

DbLogs == {FlightLog(d, m) : d \in 1..MaxDatetimes, m \in DbMetadatas}

Batches == UNION {[1..n -> DbLogs] : n \in 0..MaxBatch}

\* A database fresh from create_db().
InitDb ==
    /\ NoLog
    /\ ret = NoCall
    /\ flight_logs = <<>>
    /\ db_data = None
    /\ table = <<>>
    /\ submitted = {}

\* insert_single(flight_log)
InsertSingle(log) ==
    LET r == insert_single(table, log)
    IN  /\ table' = r.table
        /\ submitted' = submitted \cup {log.log_datetime}
        /\ ret' = [NoCall EXCEPT !.op = "insert_single", !.raised = r.raised]
        /\ UNCHANGED log_vars
        /\ UNCHANGED <<flight_logs, db_data>>

\* bulk_insert(flight_logs)
BulkInsert(logs) ==
    LET r == bulk_insert(table, logs)
    IN  /\ table' = r.table
        /\ submitted' = submitted \cup {logs[k].log_datetime : k \in 1..Len(logs)}
        /\ ret' = [NoCall EXCEPT !.op = "bulk_insert", !.raised = r.raised]
        /\ UNCHANGED log_vars
        /\ UNCHANGED <<flight_logs, db_data>>

NextDb ==
    \/ \E log \in DbLogs : InsertSingle(log)
    \/ \E logs \in Batches : BulkInsert(logs)

SpecDb == InitDb /\ [][NextDb]_vars

(* --------------------------- summary query ----------------------------- *)

\* ",".join(row[0] for row in raw_segments if row[0]) over the first k rows: the
\* numbers of the non-empty texts, in row order.
RECURSIVE all_segments(_, _)
all_segments(rows, k) ==
    IF k = 0 THEN <<>>
    ELSE all_segments(rows, k - 1) \o rows[k].flight_segment_durations

\* summary_query(): "".split(",") is [""] and float("") raises ValueError, so a
\* table without any segment text ends the call before the SummaryTuple is built;
\* with a segment text there is a row, and COUNT and the two SUMs are numbers.
summary_query(rows) ==
    LET segments == all_segments(rows, Len(rows))
    IN  IF segments = <<>>
        THEN [raised |-> "ValueError", value |-> None]
        ELSE [raised |-> "",
              value |-> Some(SummaryTuple(
                  Len(rows),
                  SumSeq([k \in 1..Len(rows) |-> rows[k].n_flights[1]]),
                  timedelta(SumSeq([k \in 1..Len(rows) |-> rows[k].total_flight_time])),
                  [k \in 1..Len(segments) |-> timedelta(segments[k])]))]

\* The metadata generate_flight_metrics leaves on a segmented log.
SegmentedMetadatas == {metrics_of(found) : found \in Founds}

\* An empty database and 1..MaxLogs segmented logs of distinct datetimes.
InitRoundTrip ==
    /\ NoLog
    /\ ret = NoCall
    /\ \E n \in 1..MaxLogs : \E ms \in [1..n -> SegmentedMetadatas] :
          flight_logs = [k \in 1..n |-> FlightLog(k, ms[k])]
    /\ db_data = None
    /\ table = <<>>
    /\ submitted = {}

\* bulk_insert(flight_logs) of the logs in hand into the empty database.
BulkInsertLogs ==
    /\ ret.op = ""
    /\ BulkInsert(flight_logs)

\* summary_query() after the insertion.
SummaryQuery ==
    LET r == summary_query(table)
    IN  /\ ret.op = "bulk_insert"
        /\ db_data' = IF r.raised = "" THEN r.value ELSE db_data
        /\ ret' = [NoCall EXCEPT !.op = "summary_query", !.raised = r.raised]
        /\ UNCHANGED log_vars
        /\ UNCHANGED <<flight_logs, table, submitted>>

NextRoundTrip ==
    \/ BulkInsertLogs
    \/ SummaryQuery
    \/ FromDbQuery

SpecRoundTrip == InitRoundTrip /\ [][NextRoundTrip]_vars

(* ------------------------ reading the last call ------------------------ *)

Rows == 0..(Len(elapsed_time) - 1)

Returned(op) == ret.op = op /\ ret.raised = ""

\* What the extractor hands the merger for the call recorded in ret.
Extracted == _segment_flights(flight_mode, elapsed_time, ret.start_trim)

Candidates == Extracted.flights

Gaps == Extracted.next_segment_delta

CandidateDuration(c) == iloc(elapsed_time, c[2]) - iloc(elapsed_time, c[1])

\* The segments of an Optional[list[FlightSegment]].
SegmentsOf(opt_list) == IF opt_list = None THEN <<>> ELSE opt_list[1]

Span(seg) == iloc(elapsed_time, seg.end_idx) - iloc(elapsed_time, seg.start_idx)

Covers(seg, c) == seg.start_idx <= c[1] /\ c[2] <= seg.end_idx

WindowRows(i, window_width) == {j \in 0..i : j > i - window_width}

RECURSIVE SumOver(_, _)
SumOver(col, rows) ==
    IF rows = {} THEN 0
    ELSE LET r == CHOOSE x \in rows : TRUE
         IN  iloc(col, r) + SumOver(col, rows \ {r})

(* ------------------------------- claims -------------------------------- *)

\* C1: after classify_flight every row i is labelled, and it is AIRBORNE exactly
\* when the mean of groundspeed over rows max(0, i-W+1)..i is >= T (a mean equal
\* to T is AIRBORNE), GROUND otherwise.
C1_EveryRowLabelledByWindowMean ==
    ret.op = "classify_flight" =>
        /\ DOMAIN flight_mode = DOMAIN groundspeed
        /\ \A i \in Rows :
              LET rows == WindowRows(i, ret.window_width)
              IN  /\ iloc(flight_mode, i) \in {GROUND, AIRBORNE}
                  /\ iloc(flight_mode, i) = AIRBORNE
                        <=> SumOver(groundspeed, rows)
                              >= ret.airborne_threshold * Cardinality(rows)

\* A row in the shrinking part of the window whose mean equals T is AIRBORNE, a
\* row with a full window is AIRBORNE, and another row is GROUND.
C1_Witness ==
    /\ ret.op = "classify_flight"
    /\ \E i \in Rows :
          /\ i >= 1 /\ i + 1 < ret.window_width
          /\ SumOver(groundspeed, WindowRows(i, ret.window_width))
                = ret.airborne_threshold * (i + 1)
          /\ iloc(flight_mode, i) = AIRBORNE
    /\ \E i \in Rows : i >= ret.window_width /\ iloc(flight_mode, i) = AIRBORNE
    /\ \E i \in Rows : iloc(flight_mode, i) = GROUND

\* C2: every FlightSegment find_flights returns has duration >= time_threshold,
\* and so has its span from takeoff to landing.
C2_NoShortSegment ==
    Returned("find_flights") =>
        LET segs == SegmentsOf(ret.value)
        IN  \A k \in DOMAIN segs :
                /\ segs[k].duration >= ret.time_threshold
                /\ Span(segs[k]) >= ret.time_threshold

\* find_flights returned a segment and dropped a short final candidate that
\* followed it.
C2_Witness ==
    /\ Returned("find_flights")
    /\ LET segs  == SegmentsOf(ret.value)
           cands == Candidates
       IN  /\ Len(segs) >= 1
           /\ Len(cands) >= 3
           /\ CandidateDuration(cands[Len(cands)]) < ret.time_threshold
           /\ \A k \in DOMAIN segs : ~Covers(segs[k], cands[Len(cands)])

\* C3: every returned FlightSegment has start_idx <= end_idx,
\* duration = elapsed_time[end_idx] - elapsed_time[start_idx] and duration >= 0.
C3_SegmentShape ==
    Returned("find_flights") =>
        LET segs == SegmentsOf(ret.value)
        IN  \A k \in DOMAIN segs :
                /\ segs[k].start_idx \in Rows /\ segs[k].end_idx \in Rows
                /\ segs[k].start_idx <= segs[k].end_idx
                /\ segs[k].duration = Span(segs[k])
                /\ segs[k].duration >= 0

\* A segment merged from two candidates was returned.
C3_Witness ==
    /\ Returned("find_flights")
    /\ LET segs  == SegmentsOf(ret.value)
           cands == Candidates
       IN  \E k \in DOMAIN segs : \E i \in DOMAIN cands :
               /\ i + 1 \in DOMAIN cands
               /\ segs[k].start_idx = cands[i][1]
               /\ segs[k].end_idx = cands[i + 1][2]

\* C4: the returned list is strictly ordered and non-overlapping, and every
\* segment runs from the start of a candidate i to the end of a candidate j >= i
\* with every gap between candidates i..j below time_threshold.
C4_OrderedAndConserved ==
    Returned("find_flights") =>
        LET segs  == SegmentsOf(ret.value)
            cands == Candidates
            gaps  == Gaps
        IN  /\ \A k \in DOMAIN segs :
                  k + 1 \in DOMAIN segs => segs[k].end_idx < segs[k + 1].start_idx
            /\ \A k \in DOMAIN segs :
                  \E i \in DOMAIN cands : \E j \in i..Len(cands) :
                      /\ segs[k].start_idx = cands[i][1]
                      /\ segs[k].end_idx = cands[j][2]
                      /\ \A g \in i..(j - 1) : gaps[g] < ret.time_threshold

\* Two segments were returned out of three candidates, one of them merged from
\* two candidates.
C4_Witness ==
    /\ Returned("find_flights")
    /\ LET segs  == SegmentsOf(ret.value)
           cands == Candidates
       IN  /\ Len(segs) = 2
           /\ Len(cands) = 3
           /\ \E k \in DOMAIN segs : \E i \in DOMAIN cands :
                 /\ i + 1 \in DOMAIN cands
                 /\ segs[k].start_idx = cands[i][1]
                 /\ segs[k].end_idx = cands[i + 1][2]

\* C5: with find_flights returning, every candidate whose own duration is
\* >= time_threshold lies inside exactly one returned segment, and a lone such
\* candidate gives exactly one segment with the candidate's indices.
C5_NoGenuineFlightLost ==
    Returned("find_flights") =>
        LET segs  == SegmentsOf(ret.value)
            cands == Candidates
        IN  /\ \A i \in DOMAIN cands :
                  CandidateDuration(cands[i]) >= ret.time_threshold =>
                      Cardinality({k \in DOMAIN segs : Covers(segs[k], cands[i])}) = 1
            /\ (/\ Len(cands) = 1
                /\ CandidateDuration(cands[1]) >= ret.time_threshold)
               => ret.value =
                     Some(<<FlightSegment(cands[1][1], cands[1][2],
                                          CandidateDuration(cands[1]))>>)

\* A long candidate followed by a long gap and a short last candidate: the long
\* one is returned on its own.
C5_Witness ==
    /\ Returned("find_flights")
    /\ LET segs  == SegmentsOf(ret.value)
           cands == Candidates
           gaps  == Gaps
       IN  /\ Len(cands) = 2
           /\ CandidateDuration(cands[1]) >= ret.time_threshold
           /\ gaps[1] >= ret.time_threshold
           /\ CandidateDuration(cands[2]) < ret.time_threshold
           /\ segs = <<FlightSegment(cands[1][1], cands[1][2],
                                     CandidateDuration(cands[1]))>>

\* C6: find_flights returns None, never an empty list, when there is no
\* candidate or every candidate is discarded, and a non-empty list otherwise;
\* generate_flight_metrics stores that value, None included, as flight_segments.
C6_NoSegmentsIsNone ==
    /\ Returned("find_flights") =>
          LET cands == Candidates
          IN  /\ ret.value # Some(<<>>)
              /\ Len(cands) = 0 => ret.value = None
              /\ (\E i \in DOMAIN cands :
                     CandidateDuration(cands[i]) >= ret.time_threshold)
                 => Len(SegmentsOf(ret.value)) >= 1
    /\ (Returned("generate_flight_metrics") /\ ret.classify_segments) =>
          LET cands == Candidates
              gaps  == Gaps
          IN  /\ metadata.flight_segments # Some(<<>>)
              /\ metadata.flight_segments =
                    find_flights(flight_mode, elapsed_time,
                                 ret.time_threshold, ret.start_trim).value
              /\ (\A i \in DOMAIN cands :
                     /\ CandidateDuration(cands[i]) < ret.time_threshold
                     /\ i \in DOMAIN gaps => gaps[i] >= ret.time_threshold)
                 => metadata.flight_segments = None

\* generate_flight_metrics found candidates, all of them discarded.
C6_Witness ==
    /\ Returned("generate_flight_metrics") /\ ret.classify_segments
    /\ Len(Candidates) >= 2
    /\ metadata.flight_segments = None

\* C7 (as claimed): with an odd number of transitions after the trim
\* find_flights does not raise and returns the no-segments value.
C7_OddTransitionsGiveNoSegments ==
    (/\ ret.op = "find_flights"
     /\ Len(transitions(flight_mode, elapsed_time, ret.start_trim)) % 2 = 1)
    => ret.raised = "" /\ ret.value = None

\* C8 (as claimed): trim_idx is the first row with elapsed_time >= start_trim,
\* and when no row has elapsed_time >= start_trim no candidate is produced and
\* find_flights returns no segment, whatever the labels.
C8_TrimBeyondSeriesGivesNothing ==
    /\ ret.op \in {"_segment_flights", "find_flights"} =>
          LET trim_idx == trim_index(elapsed_time, ret.start_trim)
          IN  (\E i \in Rows : iloc(elapsed_time, i) >= ret.start_trim) =>
                  /\ iloc(elapsed_time, trim_idx) >= ret.start_trim
                  /\ \A j \in 0..(trim_idx - 1) : iloc(elapsed_time, j) < ret.start_trim
    /\ (/\ ret.op \in {"_segment_flights", "find_flights"}
        /\ \A i \in Rows : iloc(elapsed_time, i) < ret.start_trim)
       => /\ ret.op = "_segment_flights" => ret.value = <<<<>>, <<>>>>
          /\ ret.op = "find_flights" => ret.value = None

\* C9 (as claimed): the extractor returns an even number of transition indices,
\* and a trimmed region of constant flight_mode, of any length, gives zero
\* candidates without raising.
C9_EvenAndConstantGivesNothing ==
    ret.op = "_segment_flights" =>
        LET trim_idx == trim_index(elapsed_time, ret.start_trim)
        IN  /\ ret.raised = ""
                  => Len(transitions(flight_mode, elapsed_time, ret.start_trim)) % 2 = 0
            /\ (\A i \in trim_idx..(Len(flight_mode) - 1) :
                   iloc(flight_mode, i) = iloc(flight_mode, trim_idx))
               => ret.raised = "" /\ ret.value[1] = <<>>

\* C10: after generate_flight_metrics with classify_segments=True returns,
\* n_flight_segments is the number of segments found (0, not None, when none)
\* and total_flight_time is the sum of their durations (zero when none).
C10_MetadataFromSegments ==
    (Returned("generate_flight_metrics") /\ ret.classify_segments) =>
        LET segs == SegmentsOf(find_flights(flight_mode, elapsed_time,
                                            ret.time_threshold, ret.start_trim).value)
        IN  /\ metadata.n_flight_segments = Some(Len(segs))
            /\ metadata.total_flight_time
                  = SumOver([k \in DOMAIN segs |-> segs[k].duration], 0..(Len(segs) - 1))
            /\ SegmentsOf(metadata.flight_segments) = segs

\* Two segments were found and counted.
C10_Witness ==
    /\ Returned("generate_flight_metrics") /\ ret.classify_segments
    /\ metadata.n_flight_segments = Some(2)
    /\ Len(SegmentsOf(metadata.flight_segments)) = 2
    /\ metadata.total_flight_time > 0

(* ------------------------- reading a summary --------------------------- *)

\* The LogSummary returned by the call recorded in ret.
Summary == ret.value[1]

\* A log's segment count with null counted as 0.
CountOf(log) ==
    IF log.metadata.n_flight_segments = None THEN 0
    ELSE log.metadata.n_flight_segments[1]

SumOfCounts(logs) == SumSeq([k \in 1..Len(logs) |-> CountOf(logs[k])])

SumOfTotals(logs) ==
    SumSeq([k \in 1..Len(logs) |-> logs[k].metadata.total_flight_time])

\* The durations of the segments of the classified logs.
DurationsOf(logs) ==
    {SegmentsOf(logs[k].metadata.flight_segments)[j].duration :
        <<k, j>> \in {p \in (1..Len(logs)) \X (1..MaxSegments) :
                        /\ logs[p[1]].metadata.n_flight_segments # None
                        /\ p[2] <= Len(SegmentsOf(logs[p[1]].metadata.flight_segments))}}

Least(durations) == CHOOSE d \in durations : \A e \in durations : d <= e

Greatest(durations) == CHOOSE d \in durations : \A e \in durations : d >= e

\* q is td / n rounded to the resolution of a timedelta (a tie to the even side).
IsQuotient(q, td, n) ==
    /\ 2 * Abs(q * n - td) <= n
    /\ 2 * Abs(q * n - td) = n => q % 2 = 0

\* C11: from_flight_logs of an empty collection fails with an error and builds
\* no LogSummary; every LogSummary it returns has n_logs equal to the number of
\* logs given, which is at least 1.
C11_EmptyFailsElseCountsLogs ==
    ret.op = "from_flight_logs" =>
        /\ Len(flight_logs) = 0 => ret.raised # "" /\ ret.value = None
        /\ ret.value # None =>
              /\ ret.raised = ""
              /\ Summary.n_logs = Len(flight_logs)
              /\ Summary.n_logs >= 1

\* The empty collection was summarised and the call failed.
C11_Witness ==
    /\ ret.op = "from_flight_logs"
    /\ Len(flight_logs) = 0
    /\ ret.raised = "ValueError"

\* C12: for a non-empty collection from_flight_logs returns a summary whose
\* n_flight_segments is the sum of the logs' n_flight_segments, a null count
\* taken as 0, and null exactly when that sum is 0.
C12_SegmentCountIsSumOrNull ==
    (ret.op = "from_flight_logs" /\ Len(flight_logs) > 0) =>
        LET total == SumOfCounts(flight_logs)
        IN  /\ Returned("from_flight_logs")
            /\ ret.value # None
            /\ Summary.n_flight_segments = None <=> total = 0
            /\ Summary.n_flight_segments # None =>
                  Summary.n_flight_segments[1] = total

\* An unclassified log and a log of two segments were summarised together.
C12_Witness ==
    /\ Returned("from_flight_logs")
    /\ \E k \in 1..Len(flight_logs) : flight_logs[k].metadata.n_flight_segments = None
    /\ \E k \in 1..Len(flight_logs) : flight_logs[k].metadata.n_flight_segments = Some(2)
    /\ Summary.n_flight_segments = Some(2)

C14_NullTogether ==
    Returned("from_flight_logs") =>
        /\ \A field \in {Summary.total_flight_time, Summary.avg_flight_time,
                         Summary.shortest_flight, Summary.longest_flight} :
              field = None <=> Summary.n_flight_segments = None
        /\ (Len(flight_logs) = 1 /\ flight_logs[1].metadata = LogMetadata) =>
              /\ Summary.n_logs = 1
              /\ Summary.n_flight_segments = None
              /\ Summary.total_flight_time = None

\* C15: avg_flight_time is total_flight_time / n_flight_segments when both are
\* non-null and non-zero and null otherwise, and neither from_flight_logs nor
\* from_db_query fails with a division error.
C15_AverageIsQuotientOrNull ==
    ret.op \in {"from_flight_logs", "from_db_query"} =>
        /\ ret.raised # "ZeroDivisionError"
        /\ ret.value # None =>
              IF /\ Summary.total_flight_time \notin {None, Some(timedelta(0))}
                 /\ Summary.n_flight_segments \notin {None, Some(0)}
              THEN /\ Summary.avg_flight_time # None
                   /\ IsQuotient(Summary.avg_flight_time[1],
                                 Summary.total_flight_time[1],
                                 Summary.n_flight_segments[1])
              ELSE Summary.avg_flight_time = None

\* C16: shortest_flight and longest_flight are the least and the greatest
\* duration of all segments (of every contributing log for from_flight_logs, of
\* db_data.flight_segments for from_db_query), a duration of zero included, and
\* null when there is no segment anywhere.
C16_ShortestAndLongest ==
    (ret.op \in {"from_flight_logs", "from_db_query"} /\ ret.value # None) =>
        LET durations ==
                IF ret.op = "from_flight_logs" THEN DurationsOf(flight_logs)
                ELSE {db_data[1].flight_segments[k] :
                         k \in 1..Len(db_data[1].flight_segments)}
        IN  IF durations = {}
            THEN Summary.shortest_flight = None /\ Summary.longest_flight = None
            ELSE /\ Summary.shortest_flight = Some(Least(durations))
                 /\ Summary.longest_flight = Some(Greatest(durations))

\* The arguments of the two calls recorded in ret and ret' are the same.
SameCall ==
    /\ ret'.op = ret.op
    /\ ret'.window_width = ret.window_width
    /\ ret'.airborne_threshold = ret.airborne_threshold
    /\ ret'.time_threshold = ret.time_threshold
    /\ ret'.start_trim = ret.start_trim
    /\ ret'.classify_segments = ret.classify_segments

\* C17: generate_flight_metrics run a second time on the same FlightLog with the
\* same parameters leaves the flight_mode column and the metadata
\* (flight_segments, n_flight_segments, total_flight_time) as the first run left
\* them.
C17_SecondRunChangesNothing ==
    [][(ret.op = "generate_flight_metrics" /\ SameCall) =>
          /\ flight_mode' = flight_mode
          /\ metadata' = metadata]_vars

\* A run that found a flight between GROUND rows: the log a second run starts from.
C17_Witness ==
    /\ Returned("generate_flight_metrics")
    /\ ret.classify_segments
    /\ metadata.n_flight_segments = Some(1)
    /\ metadata.total_flight_time > timedelta(0)
    /\ \E i \in Rows : iloc(flight_mode, i) = GROUND

\* The series with the groundspeed of row j raised to v.
Raised(col, j, v) == [col EXCEPT ![j + 1] = v]

\* C18: for a fixed window width and threshold, raising the groundspeed of one
\* sample, every other sample held fixed, turns no row's flight_mode from
\* AIRBORNE to GROUND.
C18_RaisingASampleGroundsNoRow ==
    ret.op = "classify_flight" =>
        \A j \in Rows : \A v \in LogSpeeds :
            v > iloc(groundspeed, j) =>
                LET raised == classify_flight(Raised(groundspeed, j, v),
                                              ret.window_width, ret.airborne_threshold)
                IN  \A i \in Rows :
                        iloc(flight_mode, i) = AIRBORNE => iloc(raised, i) = AIRBORNE

\* Raising one sample turns a GROUND row AIRBORNE while an AIRBORNE row whose
\* window holds the sample stays AIRBORNE.
C18_Witness ==
    /\ ret.op = "classify_flight"
    /\ \E j \in Rows : \E v \in LogSpeeds :
          /\ v > iloc(groundspeed, j)
          /\ LET raised == classify_flight(Raised(groundspeed, j, v),
                                           ret.window_width, ret.airborne_threshold)
             IN  /\ \E i \in Rows : /\ iloc(flight_mode, i) = GROUND
                                     /\ iloc(raised, i) = AIRBORNE
                 /\ \E i \in Rows : /\ j \in WindowRows(i, ret.window_width)
                                     /\ i # j
                                     /\ iloc(flight_mode, i) = AIRBORNE
                                     /\ iloc(raised, i) = AIRBORNE

\* C19: after any sequence of insert_single and bulk_insert calls the table
\* holds exactly one row per distinct flight datetime among the logs submitted,
\* and no call has raised: a log whose datetime is stored already, or that comes
\* earlier in the same batch, is ignored.
C19_OneRowPerSubmittedDatetime ==
    /\ ret.op \in {"insert_single", "bulk_insert"} => ret.raised = ""
    /\ stored_datetimes(table) = submitted
    /\ Len(table) = Cardinality(submitted)

\* C20: when segment extraction fails inside generate_flight_metrics (an odd
\* transition count, for one), the call signals the error and stores no partial
\* result: n_flight_segments, total_flight_time and flight_segments are as before
\* the call and of the caller's data only the flight_mode column, written by the
\* classification pass, has changed.
C20_FailedExtractionStoresNothing ==
    [][LET fm == classify_flight(groundspeed, ROLLING_WINDOW_WIDTH,
                                 ret'.airborne_threshold)
           extracted == _segment_flights(fm, elapsed_time, ret'.start_trim)
       IN  (/\ ret'.op = "generate_flight_metrics"
            /\ ret'.classify_segments
            /\ extracted.raised # "") =>
               /\ ret'.raised = extracted.raised
               /\ metadata' = metadata
               /\ flight_mode' = fm
               /\ groundspeed' = groundspeed
               /\ elapsed_time' = elapsed_time]_vars

\* A log on which an earlier run stored a flight and the last run failed on an
\* odd transition count: the stored flight is still there.
C20_Witness ==
    /\ ret.op = "generate_flight_metrics"
    /\ ret.raised = "ValueError"
    /\ Len(transitions(flight_mode, elapsed_time, ret.start_trim)) % 2 = 1
    /\ metadata.n_flight_segments = Some(1)

(* ----------------------- reading the merge loop ------------------------ *)

\* The accumulator and the validated flights before candidate i of the
\* find_flights call recorded in ret (i = number of candidates + 1: at loop end).
LoopState(cands, gaps, i) == merge_loop(elapsed_time, ret.time_threshold, cands, gaps, i)

\* C21: in find_flights a candidate shorter than time_threshold whose next gap is
\* >= time_threshold and which is met with an empty accumulator is discarded: the
\* accumulator stays empty, nothing is validated for it and neither of its rows
\* is the start_idx or end_idx of a returned FlightSegment.
C21_IsolatedShortCandidateDiscarded ==
    Returned("find_flights") =>
        LET segs  == SegmentsOf(ret.value)
            cands == Candidates
            gaps  == Gaps
        IN  \A i \in DOMAIN cands :
                LET before == LoopState(cands, gaps, i)
                    after  == LoopState(cands, gaps, i + 1)
                IN  (/\ CandidateDuration(cands[i]) < ret.time_threshold
                     /\ i \in DOMAIN gaps
                     /\ gaps[i] >= ret.time_threshold
                     /\ before.flight_indices = <<>>) =>
                        /\ after.flight_indices = <<>>
                        /\ after.valid_flights = before.valid_flights
                        /\ \A k \in DOMAIN segs :
                              /\ segs[k].start_idx \notin {cands[i][1], cands[i][2]}
                              /\ segs[k].end_idx \notin {cands[i][1], cands[i][2]}

\* An isolated short first candidate was dropped and a later candidate returned.
C21_Witness ==
    /\ Returned("find_flights")
    /\ LET segs  == SegmentsOf(ret.value)
           cands == Candidates
           gaps  == Gaps
       IN  /\ Len(cands) >= 2
           /\ CandidateDuration(cands[1]) < ret.time_threshold
           /\ gaps[1] >= ret.time_threshold
           /\ Len(segs) = 1
           /\ segs[1].start_idx = cands[2][1]

\* The last candidate of the group that starts with candidate i: the candidates
\* from i on whose gaps in between are all < time_threshold.
RECURSIVE GroupEnd(_, _)
GroupEnd(gaps, i) ==
    IF i \in DOMAIN gaps /\ gaps[i] < ret.time_threshold
    THEN GroupEnd(gaps, i + 1)
    ELSE i

\* C22: in find_flights two adjacent candidates with a gap < time_threshold are
\* accumulated together and never fall into two different returned segments; a gap
\* >= time_threshold closes the accumulation and no returned segment spans it; a
\* short first candidate followed by a gap < time_threshold is folded, the merged
\* segment running from its start to the end of the last candidate of its group.
C22_GapsDecideGrouping ==
    Returned("find_flights") =>
        LET segs  == SegmentsOf(ret.value)
            cands == Candidates
            gaps  == Gaps
        IN  /\ \A i \in DOMAIN gaps :
                  LET after == LoopState(cands, gaps, i + 1).flight_indices
                  IN  IF gaps[i] < ret.time_threshold
                      THEN /\ Len(after) >= 2
                           /\ after[Len(after) - 1] = cands[i][1]
                           /\ after[Len(after)] = cands[i][2]
                           /\ \A k \in DOMAIN segs :
                                 Covers(segs[k], cands[i]) <=> Covers(segs[k], cands[i + 1])
                      ELSE /\ after = <<>>
                           /\ \A k \in DOMAIN segs :
                                 ~(/\ segs[k].start_idx <= cands[i][2]
                                   /\ cands[i + 1][1] <= segs[k].end_idx)
            /\ (/\ 1 \in DOMAIN gaps
                /\ CandidateDuration(cands[1]) < ret.time_threshold
                /\ gaps[1] < ret.time_threshold) =>
                  LET last == cands[GroupEnd(gaps, 1)]
                      span == iloc(elapsed_time, last[2]) - iloc(elapsed_time, cands[1][1])
                  IN  /\ LoopState(cands, gaps, 2).flight_indices = <<cands[1][1], cands[1][2]>>
                      /\ span >= ret.time_threshold =>
                            /\ segs # <<>>
                            /\ segs[1] = FlightSegment(cands[1][1], last[2], timedelta(span))

\* A short first candidate was folded with the next one over a short gap, and a
\* long gap closed that segment before a third candidate.
C22_Witness ==
    /\ Returned("find_flights")
    /\ LET segs  == SegmentsOf(ret.value)
           cands == Candidates
           gaps  == Gaps
       IN  /\ Len(cands) = 3
           /\ CandidateDuration(cands[1]) < ret.time_threshold
           /\ gaps[1] < ret.time_threshold
           /\ gaps[2] >= ret.time_threshold
           /\ segs # <<>>
           /\ segs[1].start_idx = cands[1][1]
           /\ segs[1].end_idx = cands[2][2]

\* C23: each candidate pair (candidate_start, candidate_end) _segment_flights
\* returns brackets one AIRBORNE run: the mode is GROUND at candidate_start and
\* AIRBORNE on the next row, AIRBORNE at candidate_end and GROUND on the next row,
\* and every row after candidate_start up to candidate_end is AIRBORNE; also for a
\* series that is AIRBORNE at the trim index or changes mode between the first two
\* rows of the trimmed region.
C23_CandidateBracketsAirborneRun ==
    Returned("_segment_flights") =>
        LET cands == ret.value[1]
        IN  \A i \in DOMAIN cands :
                /\ iloc(flight_mode, cands[i][1]) = GROUND
                /\ iloc(flight_mode, cands[i][2] + 1) = GROUND
                /\ \A r \in (cands[i][1] + 1)..cands[i][2] :
                      iloc(flight_mode, r) = AIRBORNE

\* C24: for n >= 1 candidates _segment_flights returns exactly n - 1 gaps, gap i
\* being elapsed_time at the start of candidate i+1 minus elapsed_time at the end
\* of candidate i, and no gap is negative; find_flights pairs every candidate but
\* the last with its own gap and the last with none.
C24_OneGapBetweenCandidates ==
    Returned("_segment_flights") =>
        LET cands == ret.value[1]
            gaps  == ret.value[2]
        IN  Len(cands) >= 1 =>
                /\ Len(gaps) = Len(cands) - 1
                /\ \A i \in DOMAIN gaps :
                      /\ gaps[i] = iloc(elapsed_time, cands[i + 1][1])
                                     - iloc(elapsed_time, cands[i][2])
                      /\ gaps[i] >= 0
                      /\ next_delta_of(gaps, i) = Some(gaps[i])
                /\ next_delta_of(gaps, Len(cands)) = None

\* Three candidates with a gap of zero and a positive gap between them.
C24_Witness ==
    /\ Returned("_segment_flights")
    /\ Len(ret.value[1]) = 3
    /\ Len(ret.value[2]) = 2
    /\ \E i, j \in DOMAIN ret.value[2] : ret.value[2][i] = 0 /\ ret.value[2][j] > 0

\* C25: the accumulator of find_flights' loop is empty before the first
\* candidate; before a later candidate it is non-empty exactly when the gap from
\* the candidate before is < time_threshold; a pass that runs the landing check
\* reads a non-empty accumulator (what it validates starts at the accumulator's
\* first row and ends at the candidate's end); and it is empty when the loop ends,
\* the flights validated by then being the ones returned.
C25_AccumulatorStates ==
    Returned("find_flights") =>
        LET segs  == SegmentsOf(ret.value)
            cands == Candidates
            gaps  == Gaps
            n     == Len(cands)
        IN  /\ LoopState(cands, gaps, 1) = [flight_indices |-> <<>>, valid_flights |-> <<>>]
            /\ \A i \in 2..n :
                  LoopState(cands, gaps, i).flight_indices # <<>>
                      <=> gaps[i - 1] < ret.time_threshold
            /\ \A i \in 1..n :
                  LET before == LoopState(cands, gaps, i)
                      after  == LoopState(cands, gaps, i + 1)
                      read   == before.flight_indices \o <<cands[i][1], cands[i][2]>>
                  IN  \/ after.valid_flights = before.valid_flights
                      \/ /\ after.flight_indices = <<>>
                         /\ after.valid_flights =
                               Append(before.valid_flights,
                                      FlightSegment(read[1], read[Len(read)],
                                          timedelta(iloc(elapsed_time, read[Len(read)])
                                                    - iloc(elapsed_time, read[1]))))
            /\ LoopState(cands, gaps, n + 1).flight_indices = <<>>
            /\ LoopState(cands, gaps, n + 1).valid_flights = segs

\* Three candidates: the loop was accumulating before the second, empty before
\* the third, and a group too short to be a flight was dropped at the end.
C25_Witness ==
    /\ Returned("find_flights")
    /\ LET cands == Candidates
           gaps  == Gaps
       IN  /\ Len(cands) = 3
           /\ LoopState(cands, gaps, 2).flight_indices # <<>>
           /\ LoopState(cands, gaps, 3).flight_indices = <<>>
           /\ LoopState(cands, gaps, 4).valid_flights = LoopState(cands, gaps, 3).valid_flights
           /\ LoopState(cands, gaps, 4).valid_flights # <<>>

\* The reference merger: from candidate i on, each maximal run of candidates whose
\* gaps in between are all < time_threshold gives the segment from the start of its
\* first to the end of its last candidate if that span is >= time_threshold, and
\* nothing otherwise.
RECURSIVE ReferenceSegments(_, _, _)
ReferenceSegments(cands, gaps, i) ==
    IF i > Len(cands) THEN <<>>
    ELSE LET j    == GroupEnd(gaps, i)
             span == iloc(elapsed_time, cands[j][2]) - iloc(elapsed_time, cands[i][1])
         IN  (IF span >= ret.time_threshold
              THEN <<FlightSegment(cands[i][1], cands[j][2], timedelta(span))>>
              ELSE <<>>)
             \o ReferenceSegments(cands, gaps, j + 1)

\* C26: find_flights returns the segments of the reference merger (maximal runs
\* of candidates with gaps < time_threshold, a run kept iff its span is
\* >= time_threshold): discarding an isolated short candidate early gives what the
\* landing check would give.
C26_SameAsReferenceMerger ==
    Returned("find_flights") =>
        SegmentsOf(ret.value) = ReferenceSegments(Candidates, Gaps, 1)

\* An isolated short candidate was discarded early, ahead of a group of two
\* candidates that was returned as one segment.
C26_Witness ==
    /\ Returned("find_flights")
    /\ LET segs  == SegmentsOf(ret.value)
           cands == Candidates
           gaps  == Gaps
       IN  /\ Len(cands) = 3
           /\ CandidateDuration(cands[1]) < ret.time_threshold
           /\ gaps[1] >= ret.time_threshold
           /\ gaps[2] < ret.time_threshold
           /\ segs = <<FlightSegment(cands[2][1], cands[3][2],
                                     timedelta(iloc(elapsed_time, cands[3][2])
                                               - iloc(elapsed_time, cands[2][1])))>>

\* C27: generate_flight_metrics with classify_segments=False changes only the
\* flight_mode column: groundspeed and elapsed_time and the metadata's
\* n_flight_segments (null on a log never segmented), total_flight_time and
\* flight_segments stay as they were; and find_flights changes nothing of the
\* series it reads, flight_mode included.
C27_UnsegmentedRunWritesFlightModeOnly ==
    [][/\ (ret'.op = "generate_flight_metrics" /\ ~ret'.classify_segments) =>
              /\ metadata' = metadata
              /\ groundspeed' = groundspeed
              /\ elapsed_time' = elapsed_time
              /\ (ret.op = "" => metadata'.n_flight_segments = None)
       /\ ret'.op = "find_flights" =>
              /\ flight_mode' = flight_mode
              /\ groundspeed' = groundspeed
              /\ elapsed_time' = elapsed_time
              /\ metadata' = metadata]_vars

\* A log never segmented after a run without segmentation: flight_mode is
\* written, with a row AIRBORNE, and the segment count is null.
C27_Witness ==
    /\ ret.op = "generate_flight_metrics"
    /\ ~ret.classify_segments
    /\ metadata = LogMetadata
    /\ Len(flight_mode) = Len(groundspeed)
    /\ \E i \in Rows : iloc(flight_mode, i) = AIRBORNE

\* C28: for logs of distinct datetimes whose metadata has n_flight_segments =
\* len(flight_segments) and total_flight_time = the sum of the durations,
\* bulk-inserting them into an empty database and calling
\* from_db_query(summary_query()) gives the LogSummary that from_flight_logs
\* gives on those logs, also when some or all of the logs have zero segments.
C28_DbSummaryIsLogSummary ==
    /\ ret.op \in {"bulk_insert", "summary_query", "from_db_query"} => ret.raised = ""
    /\ ret.op = "from_db_query" => ret.value = from_flight_logs(flight_logs).value

====
